---- MODULE Spec2Model ----
(***************************************************************************)
(* Model of the two image downloaders of the repository:                   *)
(*   src/download_gbif_mushroom_images.py   (the "gbif" variant)           *)
(*   src/download_species_images.py         (the "checklist" variant)      *)
(*                                                                         *)
(* Strings are sequences of one-character strings, so that strip, split,   *)
(* replace, lower and the filename arithmetic are computed character by    *)
(* character as the Python code computes them.                             *)
(*                                                                         *)
(* The module holds four state machines over disjoint groups of variables, *)
(* and five specifications of them:                                        *)
(*   SpecNames     parse_candidate_names applied to a label                *)
(*   SpecResolver  match_species / resolve_taxon, one backend query a step *)
(*   SpecLister    fetch_media_urls, one media entry a step                *)
(*   SpecPaged     fetch_media_urls against a paging backend, with the     *)
(*                 fairness of a sequential program that keeps running     *)
(*   SpecDriver    main / save_images_for_species, one URL a step          *)
(* In each specification the variables of the other machines stay idle.    *)
(***************************************************************************)
EXTENDS Integers, Sequences, FiniteSets, TLC

VARIABLES
    \* ---- parse_candidate_names
    raw_name,        \* the label handed to parse_candidate_names
    ordered,         \* the list it returned
    npc,             \* "call" | "done"
    \* ---- match_species / resolve_taxon
    variant,         \* "gbif" | "checklist"
    candidates,      \* parse_candidate_names(name)
    pass,            \* "exact" | "like": which loop of resolve_taxon runs
    ci,              \* index of the candidate the loop is at
    queries,         \* every backend query issued so far, in order
    answers,         \* the backend's answer to each query, in order
    response,        \* the last backend response
    match,           \* the match built from the last response, if any
    result,          \* the value returned (Nothing: None)
    taxon_id,        \* the identifier handed to the media lookup
    rpc,             \* "loop" | "returned" | "lookup" | "raised"
    \* ---- fetch_media_urls
    db,              \* the backend's records
    dbcount,         \* the count a paging backend reports
    backend,         \* "paged" | "any"
    limit,           \* the parameter limit
    urls,            \* local urls
    seen,            \* local seen
    offset,          \* local offset
    results,         \* payload["results"] of the last response
    count,           \* payload.get("count", 0) of the last response
    ri,              \* index of the record the outer for is at
    mi,              \* index of the media entry the inner for is at
    requests,        \* offsets of the requests issued so far
    sizes,           \* sizes of the pages received so far
    lpc,             \* "while" | "records" | "after" | "returned" | "raised"
    \* ---- main / save_images_for_species
    dvariant,        \* "gbif" | "checklist"
    si,              \* index of the species the for loop is at
    processed,       \* species whose processing started, in order
    failures,        \* local failures
    taxon,           \* the resolver's answer for the current species
    images,          \* the media list of the current species
    index,           \* enumerate(..., start=1) index the download loop is at
    used_names,      \* used_names / existing_names
    assigned,        \* per index, the destination filename (None: skipped)
    attempts,        \* indices whose download was attempted, in order
    outcome,         \* how the last download attempt ended
    failed_before,   \* whether a download of the current species failed
    reported,        \* per species finished, the message it ended with
    status,          \* the value main returns (None: not returned)
    raised,          \* the exception that ended the run (None: none did)
    dpc              \* "for" | "resolved" | "download" | "done" | "crashed"

nvars == <<raw_name, ordered, npc>>
rvars == <<variant, candidates, pass, ci, queries, answers, response, match,
           result, taxon_id, rpc>>
lvars == <<db, backend, dbcount, limit, urls, seen, offset, results, count,
           ri, mi,
           requests, sizes, lpc>>
dvars == <<dvariant, si, processed, failures, taxon, images, index,
           used_names, assigned, attempts, outcome, failed_before, reported,
           status, raised, dpc>>
vars == <<nvars, rvars, lvars, dvars>>

\* None and a missing JSON field, for strings and for integers; an optional
\* record is a sequence of at most one element
None == "<None>"
NoneInt == 0 - 1
Nothing == <<>>
Some(x) == <<x>>

(***************************************************************************)
(* Bounds of the model.                                                    *)
(***************************************************************************)
\* number of tokens a label is built from
MaxLen == 4
\* number of records the occurrence backend holds
MaxRecords == 3
\* records per page, 300 in the source
OCCURRENCE_PAGE_SIZE == 2
\* largest limit handed to fetch_media_urls
MaxLimit == 3
\* largest total count a backend reports
MaxCount == 3
\* entries in one answer of the checklist taxa endpoint
MaxResults == 2
\* length of the species list: stands for the 15 names of SPECIES_NAMES
NumSpecies == 2
\* images requested per species, 25 in the source; also the most images
\* the checklist backend lists for a taxon
IMAGES_PER_SPECIES == 3

(***************************************************************************)
(* Strings.                                                                *)
(***************************************************************************)
Last(s) == s[Len(s)]

Front(s) == SubSeq(s, 1, Len(s) - 1)

\* concatenation of a sequence of sequences
RECURSIVE Flatten(_)
Flatten(ss) == IF ss = <<>> THEN <<>> ELSE Head(ss) \o Flatten(Tail(ss))

Range(s) == {s[i] : i \in 1..Len(s)}

NoDuplicates(list) ==
    \A i, j \in 1..Len(list) : i # j => list[i] # list[j]

\* str.lower on the characters the model uses
LowerChar(c) ==
    CASE c = "A" -> "a"
      [] c = "B" -> "b"
      [] OTHER -> c

Lower(s) == [i \in 1..Len(s) |-> LowerChar(s[i])]

IsSpace(c) == c = " "

RECURSIVE LStrip(_)
LStrip(s) == IF s # <<>> /\ IsSpace(Head(s)) THEN LStrip(Tail(s)) ELSE s

RECURSIVE RStrip(_)
RStrip(s) == IF s # <<>> /\ IsSpace(Last(s)) THEN RStrip(Front(s)) ELSE s

\* str.strip()
Strip(s) == RStrip(LStrip(s))

\* c in s, for a character c
HasChar(s, c) == \E i \in 1..Len(s) : s[i] = c

\* s.split(c, 1)[0]: the text before the first c (all of s without one)
RECURSIVE Before(_, _)
Before(s, c) ==
    IF s = <<>> \/ Head(s) = c THEN <<>>
    ELSE <<Head(s)>> \o Before(Tail(s), c)

\* s.split(c, 1)[1], for s that holds c: the text after the first c
RECURSIVE After(_, _)
After(s, c) ==
    IF s = <<>> THEN <<>>
    ELSE IF Head(s) = c THEN Tail(s) ELSE After(Tail(s), c)

StartsWith(s, p) == Len(s) >= Len(p) /\ SubSeq(s, 1, Len(p)) = p

\* s.replace(p, ""): the occurrences of p removed, left to right
RECURSIVE Remove(_, _)
Remove(s, p) ==
    IF s = <<>> THEN <<>>
    ELSE IF StartsWith(s, p) THEN Remove(SubSeq(s, Len(p) + 1, Len(s)), p)
    ELSE <<Head(s)>> \o Remove(Tail(s), p)

Separators == {",", "/", ";"}

\* re.split(r",|/|;", s)
RECURSIVE SplitAcc(_, _, _)
SplitAcc(s, cur, acc) ==
    IF s = <<>> THEN Append(acc, cur)
    ELSE IF Head(s) \in Separators
         THEN SplitAcc(Tail(s), <<>>, Append(acc, cur))
         ELSE SplitAcc(Tail(s), Append(cur, Head(s)), acc)

Split(s) == SplitAcc(s, <<>>, <<>>)

SYN == <<"s", "y", "n", ".">>

(***************************************************************************)
(* parse_candidate_names (the two files hold the same function).           *)
(***************************************************************************)
\* base = raw_name.split("(", 1)[0].strip()
BaseUnstripped(raw) == Before(raw, "(")
Base(raw) == Strip(Before(raw, "("))

\* inside = raw_name.split("(", 1)[1].split(")", 1)[0]
Inside(raw) == Before(After(raw, "("), ")")

\* the for loop over re.split(...): the stripped, non-empty parts
RECURSIVE Parts(_)
Parts(pieces) ==
    IF pieces = <<>> THEN <<>>
    ELSE LET part == Strip(Head(pieces))
         IN  (IF part # <<>> THEN <<part>> ELSE <<>>) \o Parts(Tail(pieces))

\* the candidates collected by the if/else on the parentheses
Collected(raw) ==
    IF HasChar(raw, "(") /\ HasChar(raw, ")")
    THEN (IF Base(raw) # <<>> THEN <<Base(raw)>> ELSE <<>>)
         \o Parts(Split(Remove(Inside(raw), SYN)))
    ELSE <<raw>>

\* if raw_name not in candidates: candidates.append(raw_name)
WithoutRaw(cands, raw) == cands
WithRaw(cands, raw) ==
    IF raw \notin Range(cands) THEN Append(cands, raw) ELSE cands

\* the order-preserving, case-insensitive deduplication loop
RECURSIVE Dedup(_, _, _)
Dedup(cands, keys, acc) ==
    IF cands = <<>> THEN acc
    ELSE LET key == Lower(Head(cands))
         IN  IF key \notin keys
             THEN Dedup(Tail(cands), keys \cup {key}, Append(acc, Head(cands)))
             ELSE Dedup(Tail(cands), keys, acc)

parse_candidate_names(label) ==
    LET raw == Strip(label)
    IN  Dedup(WithRaw(Collected(raw), raw), {}, <<>>)

(***************************************************************************)
(* SpecNames: parse_candidate_names on every label of at most MaxLen       *)
(* tokens.                                                                 *)
(***************************************************************************)
Tokens == {<<"a">>, <<"A">>, <<" ">>, <<"(">>, <<")">>, <<",">>, <<"/">>,
           <<";">>, SYN}

Labels == UNION {{Flatten(ts) : ts \in [1..n -> Tokens]} : n \in 0..MaxLen}

NamesIdle == raw_name = <<>> /\ ordered = <<>> /\ npc = "idle"

InitNamesVars == raw_name \in Labels /\ ordered = <<>> /\ npc = "call"

Parse ==
    /\ UNCHANGED <<rvars, lvars, dvars>>
    /\ npc = "call"
    /\ ordered' = parse_candidate_names(raw_name)
    /\ npc' = "done"
    /\ UNCHANGED raw_name

(***************************************************************************)
(* fetch_media_urls (gbif variant).                                        *)
(***************************************************************************)
\* Python truthiness of a JSON string: None and "" are false
Truthy(x) == x # None /\ x # ""

\* Python truthiness of a JSON integer: None and 0 are false
TruthyInt(x) == x # NoneInt /\ x # 0

\* a or b
Or(a, b) == IF Truthy(a) THEN a ELSE b

\* url = media.get("identifier") or media.get("references")
MediaUrl(media) == Or(media.identifier, media.references)

\* record.get("media", []) or []: a record whose media is missing, null or
\* empty is held with media = <<>>
MediaOf(record) == record.media

\* if url in seen: continue
AlwaysNew(url, seenset) == TRUE
IsNew(url, seenset) == url \notin seenset

\* the two "if len(urls) >= limit: break" of the for loops
Full(list, lim) == Len(list) >= lim

\* while len(urls) < limit
Wanted(list, lim) == Len(list) < lim

\* offset += len(results)
SameOffset(off, page) == off
NextOffset(off, page) == off + Len(page)

\* if offset >= payload.get("count", 0): break
NeverExhausted(off, total) == FALSE
Exhausted(off, total) == off >= total

Min(a, b) == IF a <= b THEN a ELSE b

\* the records a backend returns for offset=off, limit=OCCURRENCE_PAGE_SIZE
Page(records, off) ==
    SubSeq(records, off + 1, Min(off + OCCURRENCE_PAGE_SIZE, Len(records)))

\* media entries of the occurrence records
mA == [identifier |-> "a", references |-> None]
mB == [identifier |-> "", references |-> "b"]
mAB == [identifier |-> "a", references |-> "b"]
mC == [identifier |-> "c", references |-> None]
mNone == [identifier |-> None, references |-> None]

\* occurrence records: without media, with one entry, with several
RecordKinds == {[media |-> <<>>],
                [media |-> <<mA>>],
                [media |-> <<mB>>],
                [media |-> <<mAB, mB>>],
                [media |-> <<mNone, mC>>]}

DBs == UNION {[1..n -> RecordKinds] : n \in 0..MaxRecords}

\* what the backend may answer to a request at offset off: a paging backend
\* the page of its records from off on and its total count, any other
\* backend any page of its records and any count
Responses(off) ==
    IF backend = "paged"
    THEN {[results |-> Page(db, off), count |-> dbcount]}
    ELSE {[results |-> Page(db, s), count |-> c] :
             s \in 0..Len(db), c \in 0..MaxCount}

ListerIdle ==
    /\ db = <<>> /\ backend = "idle" /\ dbcount = 0 /\ limit = 0
    /\ urls = <<>> /\ seen = {} /\ offset = 0
    /\ results = <<>> /\ count = 0 /\ ri = 0 /\ mi = 0
    /\ requests = <<>> /\ sizes = <<>> /\ lpc = "idle"

InitListerVars(kind) ==
    /\ db \in DBs /\ backend = kind /\ limit \in 0..MaxLimit
    /\ dbcount \in (IF kind = "paged" THEN 0..MaxCount ELSE {0})
    /\ urls = <<>> /\ seen = {} /\ offset = 0
    /\ results = <<>> /\ count = 0 /\ ri = 0 /\ mi = 0
    /\ requests = <<>> /\ sizes = <<>> /\ lpc = "while"

\* while len(urls) < limit: false, so return urls
WhileExit ==
    /\ UNCHANGED <<nvars, rvars, dvars>>
    /\ lpc = "while"
    /\ ~Wanted(urls, limit)
    /\ lpc' = "returned"
    /\ UNCHANGED <<db, backend, dbcount, limit, urls, seen, offset, results,
                   count,
                   ri, mi, requests, sizes>>

\* one request; an empty page breaks out of the while loop
Fetch ==
    /\ UNCHANGED <<nvars, rvars, dvars>>
    /\ lpc = "while"
    /\ Wanted(urls, limit)
    /\ \E payload \in Responses(offset) :
          /\ results' = payload.results
          /\ count' = payload.count
          /\ requests' = Append(requests, offset)
          /\ sizes' = Append(sizes, Len(payload.results))
          /\ IF payload.results = <<>>
             THEN lpc' = "returned" /\ ri' = 0 /\ mi' = 0
             ELSE lpc' = "records" /\ ri' = 1 /\ mi' = 1
    /\ UNCHANGED <<db, backend, dbcount, limit, urls, seen, offset>>

\* fetch_json raises: fetch_media_urls does not catch it (the paging backend
\* of SpecPaged answers every request)
FetchFails ==
    /\ UNCHANGED <<nvars, rvars, dvars>>
    /\ lpc = "while"
    /\ Wanted(urls, limit)
    /\ backend = "any"
    /\ requests' = Append(requests, offset)
    /\ lpc' = "raised"
    /\ UNCHANGED <<db, backend, dbcount, limit, urls, seen, offset, results,
                   count,
                   ri, mi, sizes>>

\* one media entry of the record the outer loop is at
MediaStep ==
    /\ UNCHANGED <<nvars, rvars, dvars>>
    /\ lpc = "records"
    /\ mi <= Len(MediaOf(results[ri]))
    /\ LET url == MediaUrl(MediaOf(results[ri])[mi])
       IN  IF Truthy(url) /\ IsNew(url, seen)
           THEN /\ seen' = seen \cup {url}
                /\ urls' = Append(urls, url)
                /\ IF Full(urls', limit)
                   THEN \* break; the outer loop's check breaks too
                        lpc' = "after" /\ mi' = mi /\ ri' = ri
                   ELSE lpc' = lpc /\ mi' = mi + 1 /\ ri' = ri
           ELSE \* continue
                /\ mi' = mi + 1
                /\ UNCHANGED <<seen, urls, lpc, ri>>
    /\ UNCHANGED <<db, backend, dbcount, limit, offset, results, count,
                   requests, sizes>>

\* the inner loop ran out of media entries: the outer loop's check and step
RecordEnd ==
    /\ UNCHANGED <<nvars, rvars, dvars>>
    /\ lpc = "records"
    /\ mi > Len(MediaOf(results[ri]))
    /\ IF Full(urls, limit) \/ ri = Len(results)
       THEN lpc' = "after" /\ ri' = ri /\ mi' = mi
       ELSE lpc' = lpc /\ ri' = ri + 1 /\ mi' = 1
    /\ UNCHANGED <<db, backend, dbcount, limit, urls, seen, offset, results,
                   count,
                   requests, sizes>>

\* offset += len(results); break when the reported count is reached
Advance ==
    /\ UNCHANGED <<nvars, rvars, dvars>>
    /\ lpc = "after"
    /\ offset' = NextOffset(offset, results)
    /\ lpc' = IF Exhausted(offset', count) THEN "returned" ELSE "while"
    /\ UNCHANGED <<db, backend, dbcount, limit, urls, seen, results, count,
                   ri, mi,
                   requests, sizes>>

PagedNext == WhileExit \/ Fetch \/ MediaStep \/ RecordEnd \/ Advance
ListerNext == PagedNext \/ FetchFails

(***************************************************************************)
(* match_species (gbif) and resolve_taxon, _select_best_match,             *)
(* TaxonMatch.effective_id (checklist).                                    *)
(***************************************************************************)
\* a or b, for integers
OrInt(a, b) == IF TruthyInt(a) THEN a ELSE b

\* str.upper on the match types the model uses
UpperType(t) ==
    CASE t = "none" -> "NONE"
      [] t = "fuzzy" -> "FUZZY"
      [] OTHER -> t

\* key = payload.get("acceptedUsageKey") or payload.get("usageKey")
PayloadKey(payload) == OrInt(payload.acceptedUsageKey, payload.usageKey)

\* if key and match_type and match_type.upper() != "NONE"
AcceptableAnyType(payload) == TruthyInt(PayloadKey(payload))
Acceptable(payload) ==
    /\ TruthyInt(PayloadKey(payload))
    /\ Truthy(payload.matchType)
    /\ UpperType(payload.matchType) # "NONE"

\* the body of the for loop of match_species: the SpeciesMatch, if any
SpeciesMatchOf(payload, candidate) ==
    IF Acceptable(payload)
    THEN Some([key |-> PayloadKey(payload),
               scientific_name |->
                   IF payload.scientificName # <<>>
                   THEN payload.scientificName ELSE candidate])
    ELSE Nothing

\* TaxonMatch(id=item.get("_id"), full_name=item.get("FullName", ""),
\*            accepted_id=item.get("accepted_id") or item.get("_id"))
TaxonMatchOf(item) ==
    [id |-> item._id,
     full_name |-> item.FullName,
     accepted_id |-> OrInt(item.accepted_id, item._id)]

\* _select_best_match: the loop over results, best being the first item
RECURSIVE SelectLoop(_, _, _)
SelectLoop(items, candidate_lower, best) ==
    IF items = <<>> THEN best
    ELSE LET m == TaxonMatchOf(Head(items))
         IN  IF Lower(m.full_name) = candidate_lower THEN Some(m)
             ELSE SelectLoop(Tail(items), candidate_lower,
                             IF best = Nothing THEN Some(m) ELSE best)

SelectFirst(items, candidate) ==
    IF items = <<>> THEN Nothing ELSE Some(TaxonMatchOf(Head(items)))
select_best_match(items, candidate) ==
    SelectLoop(items, Lower(candidate), Nothing)

\* TaxonMatch.effective_id
effective_id(m) == OrInt(m.accepted_id, m.id)

\* answers of the gbif species/match endpoint
Payloads ==
    {[acceptedUsageKey |-> NoneInt, usageKey |-> NoneInt,
      matchType |-> "NONE", scientificName |-> <<>>],
     [acceptedUsageKey |-> NoneInt, usageKey |-> 5,
      matchType |-> "EXACT", scientificName |-> <<"a">>],
     [acceptedUsageKey |-> 7, usageKey |-> 5,
      matchType |-> "fuzzy", scientificName |-> <<"b">>],
     [acceptedUsageKey |-> 0, usageKey |-> 5,
      matchType |-> "EXACT", scientificName |-> <<>>],
     [acceptedUsageKey |-> NoneInt, usageKey |-> 5,
      matchType |-> "none", scientificName |-> <<"a">>],
     [acceptedUsageKey |-> NoneInt, usageKey |-> 5,
      matchType |-> None, scientificName |-> <<"a">>],
     [acceptedUsageKey |-> 0, usageKey |-> 0,
      matchType |-> "EXACT", scientificName |-> <<"a">>]}

\* entries of the checklist taxa endpoint
Items ==
    {[_id |-> 5, FullName |-> <<"a">>, accepted_id |-> NoneInt],
     [_id |-> 6, FullName |-> <<"A">>, accepted_id |-> 7],
     [_id |-> 8, FullName |-> <<"a", "b">>, accepted_id |-> 0],
     [_id |-> 9, FullName |-> <<>>, accepted_id |-> 9]}

ResultLists == UNION {[1..n -> Items] : n \in 0..MaxResults}

\* what the backend may answer to one query
Answers(v) == IF v = "gbif" THEN {<<p>> : p \in Payloads} ELSE ResultLists

\* the labels resolved
ResolverLabels ==
    {<<"a", " ", "(", "A", ",", "b", ")">>, <<"b">>, <<" ">>}

InitResolverVars ==
    /\ variant \in {"gbif", "checklist"}
    /\ candidates \in {parse_candidate_names(l) : l \in ResolverLabels}
    /\ pass = "exact" /\ ci = 1
    /\ queries = <<>> /\ answers = <<>> /\ response = <<>>
    /\ match = Nothing /\ result = Nothing
    /\ taxon_id = NoneInt /\ rpc = "loop"

\* one iteration of a for loop over the candidates: the query, and the
\* return when its answer gives a match
Query ==
    /\ UNCHANGED <<nvars, lvars, dvars>>
    /\ rpc = "loop"
    /\ ci <= Len(candidates)
    /\ \E answer \in Answers(variant) :
          LET m == IF variant = "gbif"
                   THEN SpeciesMatchOf(answer[1], candidates[ci])
                   ELSE select_best_match(answer, candidates[ci])
          IN  /\ queries' = Append(queries, [pass |-> pass, ci |-> ci])
              /\ answers' = Append(answers, answer)
              /\ response' = answer
              /\ match' = m
              /\ IF m # Nothing
                 THEN result' = m /\ rpc' = "returned" /\ ci' = ci
                 ELSE result' = result /\ rpc' = rpc /\ ci' = ci + 1
    /\ UNCHANGED <<variant, candidates, pass, taxon_id>>

\* fetch_json raises (urlopen, json.loads): nothing catches it in the resolver
QueryFails ==
    /\ UNCHANGED <<nvars, lvars, dvars>>
    /\ rpc = "loop"
    /\ ci <= Len(candidates)
    /\ queries' = Append(queries, [pass |-> pass, ci |-> ci])
    /\ rpc' = "raised"
    /\ UNCHANGED <<variant, candidates, pass, ci, answers, response, match,
                   result, taxon_id>>

\* a for loop ran out of candidates: the second loop of resolve_taxon, or
\* return None
LoopEnd ==
    /\ UNCHANGED <<nvars, lvars, dvars>>
    /\ rpc = "loop"
    /\ ci > Len(candidates)
    /\ IF variant = "checklist" /\ pass = "exact"
       THEN pass' = "like" /\ ci' = 1 /\ rpc' = rpc /\ result' = result
       ELSE pass' = pass /\ ci' = ci /\ rpc' = "returned" /\ result' = Nothing
    /\ UNCHANGED <<variant, candidates, queries, answers, response, match,
                   taxon_id>>

\* the caller hands the match's identifier to the media lookup:
\* fetch_media_urls(match.key, ...), fetch_taxon_images(taxon.effective_id)
Lookup ==
    /\ UNCHANGED <<nvars, lvars, dvars>>
    /\ rpc = "returned"
    /\ result # Nothing
    /\ taxon_id' = IF variant = "gbif" THEN result[1].key
                   ELSE effective_id(result[1])
    /\ rpc' = "lookup"
    /\ UNCHANGED <<variant, candidates, pass, ci, queries, answers, response,
                   match, result>>

ResolverNext == Query \/ QueryFails \/ LoopEnd \/ Lookup

(***************************************************************************)
(* filename_from_url and the renaming of a used filename.                  *)
(* A URL is held parsed: its host and the segments of its path, so that    *)
(* Path(urlparse(url).path).name is the last segment, or "" without one.   *)
(***************************************************************************)
Digit(d) ==
    CASE d = 0 -> "0" [] d = 1 -> "1" [] d = 2 -> "2" [] d = 3 -> "3"
      [] d = 4 -> "4" [] d = 5 -> "5" [] d = 6 -> "6" [] d = 7 -> "7"
      [] d = 8 -> "8" [] d = 9 -> "9"

\* str(n), n >= 0
RECURSIVE Decimal(_)
Decimal(n) ==
    IF n < 10 THEN <<Digit(n)>> ELSE Decimal(n \div 10) \o <<Digit(n % 10)>>

IMAGE == <<"i", "m", "a", "g", "e", "_">>
JPG == <<".", "j", "p", "g">>

\* Path(parsed.path).name
PathName(url) == IF url.path = <<>> THEN <<>> ELSE Last(url.path)

\* filename_from_url: image_<index>.jpg (gbif), image_<index> (checklist)
filename_from_url(v, url, i) ==
    IF PathName(url) # <<>> THEN PathName(url)
    ELSE IMAGE \o Decimal(i) \o (IF v = "gbif" THEN JPG ELSE <<>>)

\* position of the dot that starts Path(name).suffix, 0 when there is none:
\* the last dot, unless it is the first or the last character
SuffixDot(name) ==
    LET dots == {i \in 1..Len(name) : name[i] = "."}
    IN  IF dots = {} THEN 0
        ELSE LET d == CHOOSE i \in dots : \A j \in dots : j <= i
             IN  IF 1 < d /\ d < Len(name) THEN d ELSE 0

\* Path(name).stem
Stem(name) ==
    IF SuffixDot(name) = 0 THEN name
    ELSE SubSeq(name, 1, SuffixDot(name) - 1)

\* Path(name).suffix
Suffix(name) ==
    IF SuffixDot(name) = 0 THEN <<>>
    ELSE SubSeq(name, SuffixDot(name), Len(name))

\* filename = f"{stem}_{index}{suffix}", suffix or ".jpg" in the gbif variant
Renamed(v, name, i) ==
    Stem(name) \o <<"_">> \o Decimal(i) \o
    (IF v = "gbif" /\ Suffix(name) = <<>> THEN JPG ELSE Suffix(name))

\* the filename the download loop gives the URL at index i
Destination(v, url, i, used) ==
    LET filename == filename_from_url(v, url, i)
    IN  IF filename \in used THEN Renamed(v, filename, i) ELSE filename

(***************************************************************************)
(* main and save_images_for_species.                                       *)
(***************************************************************************)
P_JPG == <<"p">> \o JPG
P3_JPG == <<"p", "_", "3">> \o JPG

\* media URLs
DriverUrls ==
    {[host |-> "h", path |-> <<P_JPG>>],
     [host |-> "g", path |-> <<(<<"d">>), P_JPG>>],
     [host |-> "h", path |-> <<P3_JPG>>],
     [host |-> "h", path |-> <<>>],
     [host |-> "g", path |-> <<(<<"q">>)>>]}

\* what fetch_media_urls returns: at most IMAGES_PER_SPECIES URLs, none twice
UrlLists ==
    {l \in UNION {[1..n -> DriverUrls] : n \in 0..IMAGES_PER_SPECIES} :
        NoDuplicates(l)}

\* what fetch_taxon_images returns: entries with a uri, or without one
ImageLists ==
    UNION {[1..n -> {[uri |-> Some(u)] : u \in DriverUrls}
                       \cup {[uri |-> Nothing]}] :
              n \in 0..IMAGES_PER_SPECIES}

MediaLists(v) == IF v = "gbif" THEN UrlLists ELSE ImageLists

\* the URL of an entry of the media list: url = image.get("uri") in the
\* checklist variant, the entry itself in the gbif variant
EntryUrl(v, entry) == IF v = "gbif" THEN Some(entry) ELSE entry.uri

\* except HTTPError / except URLError: the exceptions the loop catches
CaughtHTTPOnly(exc) == exc = "HTTPError"
Caught(exc) == exc \in {"HTTPError", "URLError"}

\* how a download can end: written, or an exception of download_image
Outcomes == {"saved", "HTTPError", "URLError", "OSError"}

\* if failures: return 1, else return 0
AlwaysZero(failed) == 0
ExitStatus(failed) == IF failed # <<>> THEN 1 ELSE 0

InitDriverVars ==
    /\ dvariant \in {"gbif", "checklist"}
    /\ si = 1 /\ processed = <<>> /\ failures = <<>>
    /\ taxon = None /\ images = <<>> /\ index = 0 /\ used_names = {}
    /\ assigned = <<>> /\ attempts = <<>> /\ outcome = None
    /\ failed_before = FALSE /\ reported = <<>>
    /\ status = NoneInt /\ raised = None /\ dpc = "for"

\* the species loop takes the next species and resolves it; without a match
\* the species is a failure and the loop goes on
Resolve ==
    /\ UNCHANGED <<nvars, rvars, lvars>>
    /\ dpc = "for"
    /\ si <= NumSpecies
    /\ processed' = Append(processed, si)
    /\ \E answer \in {"match", None, "raise"} :
          /\ taxon' = (IF answer = "match" THEN answer ELSE None)
          /\ IF answer = "raise"
             THEN /\ dpc' = "crashed"
                  /\ raised' = "fetch_json"
                  /\ UNCHANGED <<si, failures, reported>>
             ELSE IF answer = None
             THEN /\ failures' = Append(failures, si)
                  /\ reported' = Append(reported, "unresolved")
                  /\ si' = si + 1
                  /\ UNCHANGED <<dpc, raised>>
             ELSE /\ dpc' = "resolved"
                  /\ UNCHANGED <<si, failures, reported, raised>>
    /\ UNCHANGED <<dvariant, images, index, used_names, assigned, attempts,
                   outcome, failed_before, status>>

\* the media list of the resolved species; an empty one ends the species
ListMedia ==
    /\ UNCHANGED <<nvars, rvars, lvars>>
    /\ dpc = "resolved"
    /\ \/ /\ dpc' = "crashed"
          /\ raised' = "fetch_json"
          /\ UNCHANGED <<si, reported, images, index, used_names, assigned,
                         attempts, failed_before, taxon>>
       \/ \E list \in MediaLists(dvariant) :
             /\ raised' = raised
             /\ images' = list
             /\ used_names' = {}
             /\ assigned' = <<>>
             /\ attempts' = <<>>
             /\ failed_before' = FALSE
             /\ IF list = <<>>
                THEN /\ reported' = Append(reported, "no images")
                     /\ si' = si + 1
                     /\ index' = 0
                     /\ taxon' = None
                     /\ dpc' = "for"
                ELSE /\ index' = 1
                     /\ dpc' = "download"
                     /\ UNCHANGED <<si, reported, taxon>>
    /\ UNCHANGED <<dvariant, processed, failures, outcome, status>>

\* one iteration of the download loop on an entry without a URL: continue
SkipEntry ==
    /\ UNCHANGED <<nvars, rvars, lvars>>
    /\ dpc = "download"
    /\ index <= Len(images)
    /\ EntryUrl(dvariant, images[index]) = Nothing
    /\ assigned' = Append(assigned, <<>>)
    /\ index' = index + 1
    /\ UNCHANGED <<dvariant, si, processed, failures, taxon, images,
                   used_names, attempts, outcome, failed_before, reported,
                   status, raised, dpc>>

\* one iteration of the download loop: the filename, the download and the
\* handling of its exception
Download ==
    /\ UNCHANGED <<nvars, rvars, lvars>>
    /\ dpc = "download"
    /\ index <= Len(images)
    /\ EntryUrl(dvariant, images[index]) # Nothing
    /\ LET url == EntryUrl(dvariant, images[index])[1]
           filename == Destination(dvariant, url, index, used_names)
       IN  /\ used_names' = used_names \cup {filename}
           /\ assigned' = Append(assigned, filename)
    /\ attempts' = Append(attempts, index)
    /\ \E end \in Outcomes :
          /\ outcome' = end
          /\ IF end = "saved"
             THEN /\ index' = index + 1
                  /\ UNCHANGED <<failed_before, raised, dpc>>
             ELSE IF Caught(end)
             THEN /\ index' = index + 1
                  /\ failed_before' = TRUE
                  /\ UNCHANGED <<raised, dpc>>
             ELSE /\ dpc' = "crashed"
                  /\ raised' = end
                  /\ UNCHANGED <<index, failed_before>>
    /\ UNCHANGED <<dvariant, si, processed, failures, taxon, images,
                   reported, status>>

\* the download loop ran out of entries: the species ends, with the message
\* on too few images in the gbif variant; the locals of the species are dead
EndSpecies ==
    /\ UNCHANGED <<nvars, rvars, lvars>>
    /\ dpc = "download"
    /\ index > Len(images)
    /\ reported' = Append(reported,
                          IF /\ dvariant = "gbif"
                             /\ Len(images) < IMAGES_PER_SPECIES
                          THEN "only some images" ELSE "saved")
    /\ si' = si + 1
    /\ dpc' = "for"
    /\ taxon' = None /\ images' = <<>> /\ index' = 0 /\ used_names' = {}
    /\ assigned' = <<>> /\ attempts' = <<>> /\ outcome' = None
    /\ failed_before' = FALSE
    /\ UNCHANGED <<dvariant, processed, failures, status, raised>>

\* the species loop ran out of species: main returns
Finish ==
    /\ UNCHANGED <<nvars, rvars, lvars>>
    /\ dpc = "for"
    /\ si > NumSpecies
    /\ status' = ExitStatus(failures)
    /\ dpc' = "done"
    /\ UNCHANGED <<dvariant, si, processed, failures, taxon, images, index,
                   used_names, assigned, attempts, outcome, failed_before,
                   reported, raised>>

DriverNext ==
    Resolve \/ ListMedia \/ SkipEntry \/ Download \/ EndSpecies \/ Finish

(***************************************************************************)
(* Specifications.                                                         *)
(***************************************************************************)
ResolverIdle ==
    /\ variant = "idle" /\ candidates = <<>> /\ pass = "idle" /\ ci = 0
    /\ queries = <<>> /\ answers = <<>> /\ response = <<>>
    /\ match = Nothing /\ result = Nothing
    /\ taxon_id = NoneInt /\ rpc = "idle"

DriverIdle ==
    /\ dvariant = "idle" /\ si = 0 /\ processed = <<>> /\ failures = <<>>
    /\ taxon = None /\ images = <<>> /\ index = 0 /\ used_names = {}
    /\ assigned = <<>> /\ attempts = <<>> /\ outcome = None
    /\ failed_before = FALSE /\ reported = <<>>
    /\ status = NoneInt /\ raised = None /\ dpc = "idle"

InitNames == InitNamesVars /\ ResolverIdle /\ ListerIdle /\ DriverIdle
NextNames == Parse
SpecNames == InitNames /\ [][NextNames]_vars

InitLister == InitListerVars("any") /\ NamesIdle /\ ResolverIdle /\ DriverIdle
InitPaged == InitListerVars("paged") /\ NamesIdle /\ ResolverIdle /\ DriverIdle
SpecLister == InitLister /\ [][ListerNext]_vars
InitResolver == InitResolverVars /\ NamesIdle /\ ListerIdle /\ DriverIdle
SpecResolver == InitResolver /\ [][ResolverNext]_vars

InitDriver == InitDriverVars /\ NamesIdle /\ ResolverIdle /\ ListerIdle
SpecDriver == InitDriver /\ [][DriverNext]_vars

\* a sequential program: the loop takes its next step whenever it has one
SpecPaged == InitPaged /\ [][PagedNext]_vars /\ WF_vars(PagedNext)

(***************************************************************************)
(* Properties of parse_candidate_names (SpecNames).                        *)
(***************************************************************************)
HasParenthetical(label) == HasChar(label, "(") /\ HasChar(label, ")")

\* index of the first "(" of a label that holds one
FirstParen(label) ==
    CHOOSE i \in 1..Len(label) :
        label[i] = "(" /\ \A j \in 1..(i - 1) : label[j] # "("

\* the text of the label that precedes its first "("
PrefixText(label) == SubSeq(label, 1, FirstParen(label) - 1)

\* t is s without its leading and trailing whitespace
IsTrimOf(t, s) ==
    \E l \in 0..Len(s) : \E r \in 0..(Len(s) - l) :
        /\ \A i \in 1..l : s[i] = " "
        /\ \A i \in (Len(s) - r + 1)..Len(s) : s[i] = " "
        /\ t = SubSeq(s, l + 1, Len(s) - r)
        /\ t # <<>> => t[1] # " " /\ t[Len(t)] # " "
        /\ t = <<>> => l + r = Len(s)

\* C6 as stated: for every label with a parenthetical clause the first
\* candidate is the trimmed text that precedes the first "(".
C6_FirstIsPrefix ==
    (npc = "done" /\ HasParenthetical(raw_name)) =>
        /\ ordered # <<>>
        /\ IsTrimOf(ordered[1], PrefixText(raw_name))

\* C6 amended: for every label with a parenthetical clause whose text before
\* the first "(" is not blank, the first candidate is that text, trimmed.
C6_FirstIsNonBlankPrefix ==
    (/\ npc = "done"
     /\ HasParenthetical(raw_name)
     /\ \E j \in 1..Len(PrefixText(raw_name)) : raw_name[j] # " ") =>
        /\ ordered # <<>>
        /\ IsTrimOf(ordered[1], PrefixText(raw_name))

\* C6 witness: a label " a (...)..." whose prefix needs trimming was parsed.
C6_Witness ==
    /\ npc = "done"
    /\ HasParenthetical(raw_name)
    /\ FirstParen(raw_name) = 3
    /\ raw_name[1] = "a" /\ raw_name[2] = " "
    /\ ordered[1] = <<"a">>
    /\ Len(ordered) = 2

RECURSIVE SumSeq(_)
SumSeq(s) == IF s = <<>> THEN 0 ELSE Head(s) + SumSeq(Tail(s))

\* C2: whatever the backend answers, at every point of the loop the list has
\* at most limit elements and no URL twice, and seen is the set of its
\* elements.
C2_BoundedUnique ==
    /\ Len(urls) <= limit
    /\ NoDuplicates(urls)
    /\ seen = Range(urls)

\* C2 witness: on a later page the loop meets a URL it has already collected.
C2_Witness ==
    /\ lpc = "records"
    /\ Len(requests) >= 2
    /\ mi <= Len(MediaOf(results[ri]))
    /\ MediaUrl(MediaOf(results[ri])[mi]) \in seen
    /\ Len(urls) < limit

\* the records of the backend that have media
WithMedia(records) == {i \in 1..Len(records) : records[i].media # <<>>}

\* the URLs the records of the backend hold between them
UrlsHeld(records) ==
    {u \in UNION {{MediaUrl(records[i].media[j]) :
                      j \in 1..Len(records[i].media)} :
                  i \in 1..Len(records)} :
        Truthy(u)}

\* every request but the last got a non-empty page that left the offset
\* below the reported total count
StopsAtExhaustion ==
    /\ \A i \in 1..(Len(requests) - 1) :
           sizes[i] > 0 /\ requests[i] + sizes[i] < dbcount
    /\ (lpc = "returned" /\ Len(urls) < limit) =>
           \/ sizes # <<>> /\ Last(sizes) = 0
           \/ offset >= dbcount

\* C8 as stated: with k < N records that have media, the list returned has
\* at most k URLs.
C8_AtMostK ==
    (lpc = "returned" /\ Cardinality(WithMedia(db)) < limit) =>
        Len(urls) <= Cardinality(WithMedia(db))

\* C8 amended: with k < N records that have media, the list returned has at
\* most as many URLs as those records hold between them (at most k when no
\* record holds more than one media entry), and the lister stops once the
\* backend reports exhaustion.
C8_AtMostUrlsHeld ==
    Cardinality(WithMedia(db)) < limit =>
        /\ Len(urls) <= Cardinality(UrlsHeld(db))
        /\ (\A i \in 1..Len(db) : Len(db[i].media) <= 1) =>
               Len(urls) <= Cardinality(WithMedia(db))
        /\ StopsAtExhaustion

\* C8 witness: a backend of three records, two of them with media, asked for
\* three URLs, was paged to exhaustion.
C8_Witness ==
    /\ lpc = "returned"
    /\ Len(db) = 3
    /\ Cardinality(WithMedia(db)) = 2
    /\ limit = 3
    /\ Len(requests) = 2
    /\ Len(urls) = 2

\* each request's offset is the sum of the sizes of the pages before it, and
\* the offsets increase
OffsetsFollowPages ==
    \A i \in 1..Len(requests) :
        /\ requests[i] = SumSeq(SubSeq(sizes, 1, i - 1))
        /\ i > 1 => requests[i - 1] < requests[i]

\* a request is issued only while fewer than limit URLs are collected and,
\* after the first, only when the last page was not empty and the offset is
\* below the total count
RequestOnlyWhenMore ==
    requests' # requests =>
        /\ Len(urls) < limit
        /\ requests # <<>> => Last(sizes) > 0 /\ offset < dbcount

\* a page without any media, short of the total count, is followed by the
\* next request
MediaLessPageGoesOn ==
    (/\ lpc = "after"
     /\ \A i \in 1..Len(results) : results[i].media = <<>>
     /\ offset + Len(results) < dbcount) =>
        (lpc' = "while" /\ Wanted(urls', limit))

\* C9: against a backend that pages its records, fetch_media_urls
\* terminates; each request's offset is the sum of the page sizes before it
\* and the offsets increase; no request follows limit URLs, an empty page or
\* an offset at the total count; a page without media does not end paging.
C9_Paging ==
    /\ []OffsetsFollowPages
    /\ [][RequestOnlyWhenMore]_vars
    /\ [][MediaLessPageGoesOn]_vars
    /\ <>(lpc = "returned")

\* C9 witness: the first page held no media and a second request followed.
C9_Witness ==
    /\ Len(requests) = 2
    /\ sizes[1] = OCCURRENCE_PAGE_SIZE
    /\ \A i \in 1..sizes[1] : db[i].media = <<>>
    /\ lpc = "returned"
    /\ urls # <<>>

(***************************************************************************)
(* Properties of the resolvers (SpecResolver).                             *)
(***************************************************************************)
\* the queries of a resolution that finds nothing, in the order of the
\* candidate list: the exact pass and, in the checklist variant, the like pass
ExpectedQueries ==
    LET n == Len(candidates)
    IN  [k \in 1..(IF variant = "checklist" THEN 2 * n ELSE n) |->
            IF k <= n THEN [pass |-> "exact", ci |-> k]
            ELSE [pass |-> "like", ci |-> k - n]]

\* an answer that holds a usable result: a gbif payload with a key and a
\* match type other than NONE, a non-empty checklist result list
Usable(answer) ==
    IF variant = "gbif"
    THEN /\ \/ answer[1].acceptedUsageKey \notin {NoneInt, 0}
            \/ answer[1].usageKey \notin {NoneInt, 0}
         /\ answer[1].matchType \notin {None, "", "NONE", "none"}
    ELSE answer # <<>>

\* C3: the queries follow the candidate list in order; no query follows a
\* usable answer, which is returned at once; a like query is issued only
\* after the exact query of every candidate found nothing; None is returned
\* exactly when every query of every pass found nothing.
C3_FirstUsableAnswerWins ==
    /\ Len(queries) <= Len(ExpectedQueries)
    /\ \A k \in 1..Len(queries) : queries[k] = ExpectedQueries[k]
    /\ \A k \in 1..(Len(queries) - 1) : ~Usable(answers[k])
    /\ (answers # <<>> /\ Usable(Last(answers))) =>
           rpc \in {"returned", "lookup"} /\ result # Nothing
    /\ \A k \in 1..Len(queries) :
           queries[k].pass = "like" =>
               \A c \in 1..Len(candidates) :
                   \E j \in 1..(k - 1) :
                       /\ queries[j] = [pass |-> "exact", ci |-> c]
                       /\ ~Usable(answers[j])
    /\ rpc \in {"returned", "lookup"} =>
           (result = Nothing <=>
               /\ Len(queries) = Len(ExpectedQueries)
               /\ \A k \in 1..Len(queries) : ~Usable(answers[k]))

\* C3 witness: with three candidates, the exact pass found nothing and the
\* like query of the second candidate was answered and returned.
C3_Witness ==
    /\ variant = "checklist"
    /\ Len(candidates) = 3
    /\ Len(queries) = 5
    /\ Last(queries) = [pass |-> "like", ci |-> 2]
    /\ rpc = "returned"
    /\ result # Nothing

\* the index of the entry _select_best_match is to return for a candidate
Chosen(items, candidate) ==
    LET hits == {i \in 1..Len(items) :
                    Lower(items[i].FullName) = Lower(candidate)}
    IN  IF hits = {} THEN 1
        ELSE CHOOSE i \in hits : \A j \in hits : i <= j

\* C10: _select_best_match returns None exactly for an empty result list;
\* otherwise the first entry whose FullName is the candidate up to case, and
\* the first entry when there is none; the media lookup gets the entry's
\* accepted_id when that is present and non-zero, else its _id.
C10_BestMatch ==
    (variant = "checklist" /\ queries # <<>> /\ rpc # "raised") =>
        LET candidate == candidates[Last(queries).ci]
            item == response[Chosen(response, candidate)]
        IN  /\ match = Nothing <=> response = <<>>
            /\ response # <<>> =>
                   /\ match[1].id = item._id
                   /\ match[1].full_name = item.FullName
                   /\ rpc = "lookup" =>
                          taxon_id = IF item.accepted_id \notin {NoneInt, 0}
                                     THEN item.accepted_id ELSE item._id

\* C10 witness: the second entry of the answer carries the candidate's name
\* in another case and an accepted_id of its own, and the lookup got that.
C10_Witness ==
    /\ variant = "checklist"
    /\ rpc = "lookup"
    /\ Len(response) = 2
    /\ response[1].FullName = <<"a", "b">>
    /\ response[2].FullName = <<"A">>
    /\ candidates[Last(queries).ci] = <<"a">>
    /\ match[1].id = response[2]._id
    /\ taxon_id = response[2].accepted_id
    /\ taxon_id # response[2]._id

(***************************************************************************)
(* Properties of the driver and the download loop (SpecDriver).            *)
(***************************************************************************)
\* the indices of a list that satisfy a test, as the list itself gives them
Increasing(list) == \A i, j \in 1..Len(list) : i < j => list[i] < list[j]

\* C1: in one species run, the filenames given to two different URLs of the
\* media list are different.
C1_DistinctFilenames ==
    \A i, j \in 1..Len(assigned) :
        (/\ i < j
         /\ assigned[i] # <<>> /\ assigned[j] # <<>>
         /\ images[i] # images[j]) => assigned[i] # assigned[j]

\* C4: the species are taken once each, in list order, whatever the earlier
\* ones ended as (the run ends early only on an exception that no handler
\* of the driver catches); the failure list is the unresolved species in
\* list order, never one that resolved; main returns non-zero exactly when
\* there is one.
C4_EverySpeciesOnce ==
    /\ processed = [k \in 1..Len(processed) |-> k]
    /\ dpc = "crashed" <=> raised # None
    /\ raised \in {None, "fetch_json", "OSError"}
    /\ dpc = "for" => Len(processed) = si - 1
    /\ Len(reported) <= Len(processed) /\ Len(processed) <= Len(reported) + 1
    /\ Increasing(failures)
    /\ Range(failures) =
           {k \in 1..Len(reported) : reported[k] = "unresolved"}
    /\ dpc # "done" => status = NoneInt
    /\ dpc = "done" =>
           /\ Len(processed) = NumSpecies
           /\ Len(reported) = NumSpecies
           /\ status # 0 <=>
                  \E k \in 1..NumSpecies : reported[k] = "unresolved"

\* C4 witness: the first species did not resolve, the second resolved with
\* fewer images than requested, and main returned 1.
C4_Witness ==
    /\ dpc = "done"
    /\ reported[1] = "unresolved"
    /\ reported[NumSpecies] = "only some images"
    /\ failures = <<1>>
    /\ status = 1

\* the entries of the media list, up to index n, that have a URL
WithUrl(n) ==
    {k \in 1..n : EntryUrl(dvariant, images[k]) # Nothing}

\* in the download loop, the attempts so far are the entries with a URL
\* before the loop index, once each and in list order
AttemptsFollowList ==
    dpc = "download" =>
        /\ Len(assigned) = index - 1
        /\ Increasing(attempts)
        /\ Range(attempts) = WithUrl(index - 1)

\* a download that ends in HTTPError or URLError leaves the loop running at
\* the next entry and the failure list alone
FailureIsSkipped ==
    (attempts' # attempts /\ outcome' \in {"HTTPError", "URLError"}) =>
        /\ dpc' = "download"
        /\ index' = index + 1
        /\ si' = si
        /\ failures' = failures

\* a species with a failed download ends like any resolved species
FailureIsNoFailure ==
    (dpc = "download" /\ failed_before /\ dpc' # "download") =>
        \/ /\ dpc' = "for"
           /\ index = Len(images) + 1
           /\ failures' = failures
           /\ \E message \in {"saved", "only some images"} :
                  reported' = Append(reported, message)
        \/ dpc' = "crashed" /\ raised' = "OSError"

\* C5: an HTTPError or URLError of one download is caught for that URL
\* only: the later URLs are attempted, each URL once and in list order, and
\* the species is not added to the failures.
C5_FailureCaughtPerUrl ==
    /\ []AttemptsFollowList
    /\ [][FailureIsSkipped]_vars
    /\ [][FailureIsNoFailure]_vars

\* C5 witness: after a failed download of the species, the third URL of the
\* list was attempted and saved.
C5_Witness ==
    /\ dpc = "download"
    /\ failed_before
    /\ attempts = <<1, 2, 3>>
    /\ outcome = "saved"

====
